---- MODULE Spec2Model ----
(***************************************************************************)
(* Model of the arena allocators of core/include/engine/custom_allocator.h *)
(* (namespace neko): the alignment primitives of class Allocator, the      *)
(* fixed-slot PoolAllocator<T>, the ProxyAllocator, the base-class         *)
(* destructor, and the LinearAllocator, StackAllocator and                 *)
(* FreeListAllocator, whose Allocate, Deallocate and Clear are declared in *)
(* the header and described in sections 4.2 to 4.4 of the specification.   *)
(*                                                                         *)
(* size_t, std::uint64_t and void* are unsigned integers of WordBits bits; *)
(* every arithmetic result is reduced modulo Word, as the machine does.    *)
(* nullptr is address 0.                                                   *)
(***************************************************************************)
EXTENDS Integers, Sequences, FiniteSets, TLC

\* ------------------------------------------------------------------ bounds
WordBits == 10
MaxAddress == 17
MaxAlignment == 16
MaxHeaderSize == 9
MaxArenaSize == 71
MaxStartOffset == 3
MaxOverrun == 1
MaxCalls == 5
MaxLinearArena == 24
MaxStackArena == 48
MaxStackCalls == 4
MaxFreeListArena == 48
MaxFreeListCalls == 3

\* The element type T of PoolAllocator<T>: a 16-byte object aligned on 8,
\* on a machine whose pointers take 8 bytes.
SizeOfT == 16
AlignOfT == 8
PtrSize == 8

RECURSIVE Pow2(_)
Pow2(n) == IF n = 0 THEN 1 ELSE 2 * Pow2(n - 1)

Word == Pow2(WordBits)

NULL == 0

\* Addresses the alignment functions are applied to: the bottom of the
\* address space and its top, where address + adjustment wraps.
Addresses == (0..MaxAddress) \cup ((Word - 1 - MaxAddress)..(Word - 1))
Alignments == 0..MaxAlignment
HeaderSizes == 0..MaxHeaderSize

\* Unsigned arithmetic of size_t and std::uint64_t.
WAdd(a, b) == (a + b) % Word
WSub(a, b) == (a - b) % Word
WMul(a, b) == (a * b) % Word

\* ------------------------------------------------- alignment primitives
RECURSIVE BitAnd(_, _)
BitAnd(a, b) ==
    IF a = 0 \/ b = 0 THEN 0
    ELSE (a % 2) * (b % 2) + 2 * BitAnd(a \div 2, b \div 2)

\* neko_assert(cond, msg): a failed assertion ends the call (and the
\* process) with the error the message stands for; no later statement of
\* the function runs.
AssertHolds(cond) == cond

\* The condition asserted at the top of CalculateAlignForwardAdjustment.
IsPowerOfTwoCheck(alignment) ==
    BitAnd(alignment, WSub(alignment, 1)) = 0

\* Mutant: the early return for an already aligned address is missing.
CalculateAlignForwardAdjustment_NoZero(address, alignment) ==
    IF ~AssertHolds(IsPowerOfTwoCheck(alignment))
    THEN [err |-> "InvalidAlignment", ret |-> 0]
    ELSE [err |-> "None",
          ret |-> WSub(alignment, BitAnd(address, WSub(alignment, 1)))]

CalculateAlignForwardAdjustment(address, alignment) ==
    IF ~AssertHolds(IsPowerOfTwoCheck(alignment))
    THEN [err |-> "InvalidAlignment", ret |-> 0]
    ELSE LET adjustment ==
                WSub(alignment, BitAnd(address, WSub(alignment, 1)))
         IN  [err |-> "None",
              ret |-> IF adjustment = alignment THEN 0 ELSE adjustment]

\* Mutant: the remainder of the header space is not rounded up.
CalculateAlignForwardAdjustmentWithHeader_NoRoundUp(address, alignment, headerSize) ==
    LET plain == CalculateAlignForwardAdjustment(address, alignment)
    IN  IF plain.err # "None" THEN plain
        ELSE IF plain.ret < headerSize
        THEN IF alignment = 0
             THEN [err |-> "DivideByZero", ret |-> 0]
             ELSE LET neededSpace == WSub(headerSize, plain.ret)
                  IN  [err |-> "None",
                       ret |-> WAdd(plain.ret,
                                    WMul(alignment, neededSpace \div alignment))]
        ELSE plain

\* Mutant: one more alignment is added whether or not a remainder is left.
CalculateAlignForwardAdjustmentWithHeader_ExtraAlign(address, alignment, headerSize) ==
    LET plain == CalculateAlignForwardAdjustment(address, alignment)
    IN  IF plain.err # "None" THEN plain
        ELSE IF plain.ret < headerSize
        THEN IF alignment = 0
             THEN [err |-> "DivideByZero", ret |-> 0]
             ELSE LET neededSpace == WSub(headerSize, plain.ret)
                  IN  [err |-> "None",
                       ret |-> WAdd(WAdd(plain.ret,
                                         WMul(alignment, neededSpace \div alignment)),
                                    alignment)]
        ELSE plain

\* The division by alignment is undefined for alignment 0, which the
\* assertion lets through: the outcome is recorded as DivideByZero.
CalculateAlignForwardAdjustmentWithHeader(address, alignment, headerSize) ==
    LET plain == CalculateAlignForwardAdjustment(address, alignment)
    IN  IF plain.err # "None" THEN plain
        ELSE IF plain.ret < headerSize
        THEN IF alignment = 0
             THEN [err |-> "DivideByZero", ret |-> 0]
             ELSE LET neededSpace == WSub(headerSize, plain.ret)
                      a1 == WAdd(plain.ret,
                                 WMul(alignment, neededSpace \div alignment))
                  IN  [err |-> "None",
                       ret |-> IF neededSpace % alignment > 0
                               THEN WAdd(a1, alignment)
                               ELSE a1]
        ELSE plain

AlignForward(address, alignment) ==
    LET adj == CalculateAlignForwardAdjustment(address, alignment)
    IN  IF adj.err # "None" THEN adj
        ELSE [err |-> "None", ret |-> WAdd(address, adj.ret)]

AlignForwardWithHeader(address, alignment, headerSize) ==
    LET adj == CalculateAlignForwardAdjustmentWithHeader(address, alignment, headerSize)
    IN  IF adj.err # "None" THEN adj
        ELSE [err |-> "None", ret |-> WAdd(address, adj.ret)]

\* ------------------------------------------------------------------ state
VARIABLES
    call,            \* the last call of an alignment primitive and its outcome
    start_,          \* Allocator::start_ of the allocator
    size_,           \* Allocator::size_ of the allocator
    usedMemory_,     \* Allocator::usedMemory_ of the allocator
    numAllocations_, \* Allocator::numAllocations_ of the allocator
    freeBlocks_,     \* freeBlocks_ of the pool or free list allocator
    heap,            \* memory: address -> the FreeBlock or AllocationHeader there
    alive,           \* the allocator: "none", "constructing", "live", "destroyed"
    currentPos_,     \* currentPos_ of the linear or stack allocator
    prevPos_,        \* StackAllocator::prevPos_
    granted,         \* the allocations outstanding, oldest first: address,
                     \* size and what Allocate did for them
    NEKO_ASSERT,     \* the build: TRUE when the macro NEKO_ASSERT is defined
    proxy,           \* the ProxyAllocator object and its own Allocator fields
    fault,           \* how the process ended, "None" while it runs
    live,            \* addresses returned by Allocate and not yet deallocated
    last,            \* the last call on an allocator and its outcome
    steps            \* number of calls made (bounds the runs of Spec)

poolVars == <<start_, size_, usedMemory_, numAllocations_, freeBlocks_, heap,
              alive, live>>

arenaVars == <<currentPos_, prevPos_, granted, NEKO_ASSERT>>

vars == <<call, poolVars, arenaVars, proxy, fault, last, steps>>

\* The arguments of a call that has not been made yet.
Pending(address, alignment, headerSize) ==
    [fn |-> "None", address |-> address, alignment |-> alignment,
     headerSize |-> headerSize, err |-> "None", ret |-> 0]

NoCall == Pending(0, 0, 0)

MkCall(fn, r) ==
    [fn |-> fn, address |-> call.address, alignment |-> call.alignment,
     headerSize |-> call.headerSize, err |-> r.err, ret |-> r.ret]

\* ------------------------------------------------------ PoolAllocator<T>
\* A block's FreeBlock::next after the client wrote the payload of the
\* slot: no longer a pointer of the allocator.
POISON == Word

NoOp == [op |-> "None", via |-> "pool", size |-> 0, alignment |-> 0,
         p |-> NULL, ret |-> NULL, freed |-> NULL]

\* The byte range [a, a + len) lies in the arena [start, start + size).
InArena(a, len, start, size) == a >= start /\ a + len <= start + size

\* numObjects of the constructor: (size - adjustment) / sizeof(T), in size_t.
NumObjects(size, adjustment) == WSub(size, adjustment) \div SizeOfT

\* The bound of the constructor's loop, numObjects - 1 in size_t.
LoopCount(numObjects) == WSub(numObjects, 1)

\* The address of the i-th block the constructor visits.
BlockAddr(first, i) == first + i * SizeOfT

\* The constructor writes block i's next for i = 0 .. LoopCount (the loop,
\* then the terminating nullptr).  Writes outside the arena are undefined:
\* the run faults after `overrun` of them landed (0: the first one faults).
\* The loop cannot finish once it leaves the arena: it would have to walk
\* the whole address space.
PoolConstruct(size, mem, overrun) ==
    LET adjustment == CalculateAlignForwardAdjustment(mem, AlignOfT).ret
        first == WAdd(mem, adjustment)
        numObjects == NumObjects(size, adjustment)
        count == LoopCount(numObjects)
        inside == {i \in 0..count :
                      \A j \in 0..i : InArena(BlockAddr(first, j), PtrSize, mem, size)}
        clean == Cardinality(inside) = count + 1
        written == IF clean THEN 0..count
                   ELSE {i \in 0..count : i < Cardinality(inside) + overrun}
    IN  [freeBlocks |-> first,
         fault |-> IF clean THEN "None" ELSE "SegFault",
         heap |-> [a \in {BlockAddr(first, i) : i \in written} |->
                      LET i == (a - first) \div SizeOfT
                      IN  IF i = count THEN NULL ELSE BlockAddr(first, i + 1)]]

\* The assertion at the top of Allocate.
ShapeMatches_SizeOnly(allocatedSize, alignment) == allocatedSize = SizeOfT

ShapeMatches(allocatedSize, alignment) ==
    allocatedSize = SizeOfT /\ alignment = AlignOfT

\* freeBlocks_ = freeBlocks_->next
PopHead_Stuck(head, hp) == head

PopHead(head, hp) == hp[head]

\* freeBlocks_ = freeBlock in Deallocate
PushedHead_Keep(p, head) == head

PushedHead(p, head) == p

\* usedMemory_ -= sizeof(T)
UsedAfterFree_Keep(used) == used

UsedAfterFree(used) == WSub(used, SizeOfT)

Running == alive = "live" /\ fault = "None"

\* PoolAllocator<T>::Allocate(allocatedSize, alignment), called directly
\* (via = "pool") or through the proxy (via = "proxy").
AllocateOn(via, allocatedSize, alignment) ==
    /\ Running
    /\ LET rec(ret) == [op |-> "Allocate", via |-> via, size |-> allocatedSize,
                        alignment |-> alignment, p |-> NULL, ret |-> ret,
                        freed |-> IF last.op = "Deallocate" THEN last.p ELSE NULL]
       IN  IF ~AssertHolds(ShapeMatches(allocatedSize, alignment))
           THEN /\ fault' = "SizeMismatch"
                /\ last' = rec(NULL)
                /\ UNCHANGED poolVars
           ELSE IF freeBlocks_ = NULL
           THEN \* neko_assert(false, "Pool Allocator is full")
                /\ fault' = "OutOfMemory"
                /\ last' = rec(NULL)
                /\ UNCHANGED poolVars
           ELSE IF freeBlocks_ \notin DOMAIN heap
           THEN \* freeBlocks_ is what the client wrote in a slot: reading
                \* freeBlocks_->next is undefined, and the run ends here
                /\ fault' = "WildPointer"
                /\ last' = rec(freeBlocks_)
                /\ UNCHANGED poolVars
           ELSE /\ freeBlocks_' = PopHead(freeBlocks_, heap)
                /\ usedMemory_' = WAdd(usedMemory_, allocatedSize)
                /\ numAllocations_' = WAdd(numAllocations_, 1)
                /\ live' = live \cup {freeBlocks_}
                /\ last' = rec(freeBlocks_)
                /\ fault' = "None"
                /\ UNCHANGED <<start_, size_, heap, alive>>

\* PoolAllocator<T>::Deallocate(p): no check of p at all.
DeallocateOn(via, p) ==
    /\ Running
    /\ heap' = [a \in DOMAIN heap \cup {p} |-> IF a = p THEN freeBlocks_ ELSE heap[a]]
    /\ freeBlocks_' = PushedHead(p, freeBlocks_)
    /\ usedMemory_' = UsedAfterFree(usedMemory_)
    /\ numAllocations_' = WSub(numAllocations_, 1)
    /\ live' = live \ {p}
    /\ last' = [op |-> "Deallocate", via |-> via, size |-> 0, alignment |-> 0,
                p |-> p, ret |-> NULL, freed |-> NULL]
    /\ fault' = "None"
    /\ UNCHANGED <<start_, size_, alive>>

\* The arguments Allocate is called with: the pool's shape and others.
AllocShapes == {PtrSize, SizeOfT} \X {AlignOfT \div 2, AlignOfT}

\* The slot addresses the constructor laid out.
Blocks == DOMAIN heap

Allocate ==
    /\ \E shape \in AllocShapes : AllocateOn("pool", shape[1], shape[2])
    /\ UNCHANGED <<proxy, call, arenaVars>>

\* Deallocate of an address that is live.
Deallocate ==
    /\ \E p \in live : DeallocateOn("pool", p)
    /\ UNCHANGED <<proxy, call, arenaVars>>

\* Deallocate of a slot address that is not live: never allocated, or
\* deallocated already.
DeallocateStale ==
    /\ \E p \in Blocks \ live : DeallocateOn("pool", p)
    /\ UNCHANGED <<proxy, call, arenaVars>>

\* The client writes the object it was given: the first bytes of the slot
\* no longer hold what the allocator stored there.
WritePayload ==
    /\ Running
    /\ \E p \in live :
          /\ p \in DOMAIN heap
          /\ heap[p] # POISON
          /\ heap' = [heap EXCEPT ![p] = POISON]
    /\ UNCHANGED <<start_, size_, usedMemory_, numAllocations_, freeBlocks_,
                   alive, live, proxy, fault, last, call, arenaVars>>

\* The assertion of ~Allocator.
EmptiedCheck(numAllocations, usedMemory) ==
    numAllocations = 0 /\ usedMemory = 0

\* ~PoolAllocator, then ~Allocator.
Destroy ==
    /\ Running
    /\ freeBlocks_' = NULL
    /\ last' = [NoOp EXCEPT !.op = "Destroy"]
    /\ IF AssertHolds(EmptiedCheck(numAllocations_, usedMemory_))
       THEN /\ start_' = NULL
            /\ size_' = 0
            /\ alive' = "destroyed"
            /\ fault' = "None"
       ELSE /\ fault' = "LeakAtTeardown"
            /\ UNCHANGED <<start_, size_, alive>>
    /\ UNCHANGED <<usedMemory_, numAllocations_, heap, live, proxy, call, arenaVars>>

\* ------------------------------------------------------- ProxyAllocator
NoProxy == [alive |-> "none", start_ |-> NULL, size_ |-> 0,
            usedMemory_ |-> 0, numAllocations_ |-> 0]

\* ProxyAllocator(allocator): Allocator(allocator.GetSize(), allocator.GetStart());
\* usedMemory_ and numAllocations_ take their default member initialisers.
ConstructProxy ==
    /\ Running
    /\ proxy.alive = "none"
    /\ proxy' = [alive |-> "live", start_ |-> start_, size_ |-> size_,
                 usedMemory_ |-> 0, numAllocations_ |-> 0]
    /\ UNCHANGED <<poolVars, fault, last, call, arenaVars>>

\* The getters of Allocator are not virtual: on a proxy they read the
\* proxy's own fields.
GetUsedMemory(a) == a.usedMemory_
GetStart(a) == a.start_
GetSize(a) == a.size_

Pool == [alive |-> alive, start_ |-> start_, size_ |-> size_,
         usedMemory_ |-> usedMemory_, numAllocations_ |-> numAllocations_]

\* ProxyAllocator::Allocate and ::Deallocate forward to the wrapped allocator.
ProxyAllocate ==
    /\ proxy.alive = "live"
    /\ \E shape \in AllocShapes : AllocateOn("proxy", shape[1], shape[2])
    /\ UNCHANGED <<proxy, call, arenaVars>>

ProxyDeallocate ==
    /\ proxy.alive = "live"
    /\ \E p \in live : DeallocateOn("proxy", p)
    /\ UNCHANGED <<proxy, call, arenaVars>>

\* ~ProxyAllocator = default, then ~Allocator on the proxy's own fields.
DestroyProxy ==
    /\ fault = "None"
    /\ proxy.alive = "live"
    /\ last' = [NoOp EXCEPT !.op = "Destroy", !.via = "proxy"]
    /\ IF AssertHolds(EmptiedCheck(proxy.numAllocations_, proxy.usedMemory_))
       THEN /\ proxy' = [proxy EXCEPT !.alive = "destroyed",
                                      !.start_ = NULL, !.size_ = 0]
            /\ fault' = "None"
       ELSE /\ fault' = "LeakAtTeardown"
            /\ UNCHANGED proxy
    /\ UNCHANGED <<poolVars, call, arenaVars>>

\* ------------------------------------------- specification SpecAlign
\* The alignment primitives are static and pure: the arguments are drawn
\* at the start and one of the four functions is applied to them.
NoAllocator ==
    /\ start_ = NULL /\ size_ = 0 /\ usedMemory_ = 0 /\ numAllocations_ = 0
    /\ freeBlocks_ = NULL /\ heap = << >> /\ alive = "none" /\ live = {}
    /\ currentPos_ = NULL /\ prevPos_ = NULL /\ granted = << >>
    /\ NEKO_ASSERT = TRUE
    /\ proxy = NoProxy /\ fault = "None" /\ last = NoOp /\ steps = 0

allocVars == <<poolVars, arenaVars, proxy, fault, last, steps>>

InitAlign ==
    /\ \E address \in Addresses, alignment \in Alignments, headerSize \in HeaderSizes :
          call = Pending(address, alignment, headerSize)
    /\ NoAllocator

CallCalculateAlignForwardAdjustment ==
    /\ call.fn = "None"
    /\ call' = MkCall("CalculateAlignForwardAdjustment",
                      CalculateAlignForwardAdjustment(call.address, call.alignment))
    /\ UNCHANGED allocVars

CallCalculateAlignForwardAdjustmentWithHeader ==
    /\ call.fn = "None"
    /\ call' = MkCall("CalculateAlignForwardAdjustmentWithHeader",
                      CalculateAlignForwardAdjustmentWithHeader(
                          call.address, call.alignment, call.headerSize))
    /\ UNCHANGED allocVars

CallAlignForward ==
    /\ call.fn = "None"
    /\ call' = MkCall("AlignForward", AlignForward(call.address, call.alignment))
    /\ UNCHANGED allocVars

CallAlignForwardWithHeader ==
    /\ call.fn = "None"
    /\ call' = MkCall("AlignForwardWithHeader",
                      AlignForwardWithHeader(
                          call.address, call.alignment, call.headerSize))
    /\ UNCHANGED allocVars

NextAlign ==
    \/ CallCalculateAlignForwardAdjustment
    \/ CallCalculateAlignForwardAdjustmentWithHeader
    \/ CallAlignForward
    \/ CallAlignForwardWithHeader

SpecAlign == InitAlign /\ [][NextAlign]_vars

\* ------------------------------------------ specifications Spec, SpecLive
ArenaStarts == (Word \div 4)..(Word \div 4 + MaxStartOffset)
ArenaSizes == 0..MaxArenaSize

\* The state after PoolAllocator<T>(size, mem).
Init ==
    /\ \E mem \in ArenaStarts, size \in ArenaSizes, overrun \in 0..MaxOverrun :
          LET c == PoolConstruct(size, mem, overrun)
          IN  /\ c.fault = "None" => overrun = 0
              /\ start_ = mem
              /\ size_ = size
              /\ freeBlocks_ = c.freeBlocks
              /\ heap = c.heap
              /\ fault = c.fault
              /\ alive = IF c.fault = "None" THEN "live" ELSE "constructing"
    /\ usedMemory_ = 0
    /\ numAllocations_ = 0
    /\ live = {}
    /\ currentPos_ = NULL
    /\ prevPos_ = NULL
    /\ granted = << >>
    /\ NEKO_ASSERT = TRUE
    /\ proxy = NoProxy
    /\ last = [NoOp EXCEPT !.op = "Construct"]
    /\ call = NoCall
    /\ steps = 0

\* A call of a run of at most MaxCalls calls.
Step(A) == steps < MaxCalls /\ steps' = steps + 1 /\ A

\* Every call a client can make, in any order.
Next ==
    \/ Step(Allocate)
    \/ Step(Deallocate)
    \/ Step(DeallocateStale)
    \/ Step(WritePayload)
    \/ Step(Destroy)
    \/ Step(ConstructProxy)
    \/ Step(ProxyAllocate)
    \/ Step(ProxyDeallocate)
    \/ Step(DestroyProxy)

Spec == Init /\ [][Next]_vars

\* A call of a run of any length.
Free(A) == A /\ UNCHANGED steps

\* The calls of a client that deallocates only what it holds.
NextLive ==
    \/ Free(Allocate)
    \/ Free(Deallocate)
    \/ Free(WritePayload)
    \/ Free(Destroy)
    \/ Free(ConstructProxy)
    \/ Free(ProxyAllocate)
    \/ Free(ProxyDeallocate)
    \/ Free(DestroyProxy)

SpecLive == Init /\ [][NextLive]_vars

\* ------------------------------------------------------ LinearAllocator
\* The header declares Allocate, Deallocate and Clear and defines the
\* constructor and the destructor; the three bodies follow section 4.2 of
\* the specification.

\* The sizes and alignments of the requests: an odd size, a pointer, three
\* pointers; alignment 0, one that is no power of two, and powers of two.
RequestSizes == {3, PtrSize, 3 * PtrSize}
RequestAlignments == {0, 3, 1, 4, AlignOfT, 2 * AlignOfT}

\* currentPos_(start_) of the constructors.
InitialPos_Null(start) == NULL

InitialPos(start) == start

\* LinearAllocator(size, start)
InitLinear ==
    /\ \E start \in ArenaStarts, size \in 0..MaxLinearArena :
          /\ start_ = start
          /\ size_ = size
          /\ currentPos_ = InitialPos(start)
          /\ IF AssertHolds(size > 0)
             THEN fault = "None" /\ alive = "live"
             ELSE fault = "EmptyArena" /\ alive = "constructing"
    /\ usedMemory_ = 0
    /\ numAllocations_ = 0
    /\ freeBlocks_ = NULL
    /\ heap = << >>
    /\ live = {}
    /\ prevPos_ = NULL
    /\ granted = << >>
    /\ NEKO_ASSERT = TRUE
    /\ proxy = NoProxy
    /\ last = [NoOp EXCEPT !.op = "Construct", !.via = "linear"]
    /\ call = NoCall
    /\ steps = 0

\* The capacity left in the arena.
RemainingCapacity(size, usedMemory) == size - usedMemory

\* LinearAllocator::Allocate(allocatedSize, alignment)
LinearAllocateOn(allocatedSize, alignment) ==
    LET adj == CalculateAlignForwardAdjustment(currentPos_, alignment)
        alignedAddress == WAdd(currentPos_, adj.ret)
        rec(ret) == [op |-> "Allocate", via |-> "linear", size |-> allocatedSize,
                     alignment |-> alignment, p |-> NULL, ret |-> ret,
                     freed |-> NULL]
    IN  IF adj.err # "None"
        THEN /\ fault' = adj.err
             /\ last' = rec(NULL)
             /\ UNCHANGED <<currentPos_, usedMemory_, numAllocations_, granted>>
        ELSE IF adj.ret + allocatedSize > RemainingCapacity(size_, usedMemory_)
        THEN /\ fault' = "OutOfMemory"
             /\ last' = rec(NULL)
             /\ UNCHANGED <<currentPos_, usedMemory_, numAllocations_, granted>>
        ELSE /\ currentPos_' = WAdd(alignedAddress, allocatedSize)
             /\ usedMemory_' = WAdd(usedMemory_, adj.ret + allocatedSize)
             /\ numAllocations_' = WAdd(numAllocations_, 1)
             /\ granted' = Append(granted, [p |-> alignedAddress,
                                            size |-> allocatedSize])
             /\ last' = rec(alignedAddress)
             /\ fault' = "None"

linearIdle == <<start_, size_, freeBlocks_, heap, alive, live, prevPos_,
                NEKO_ASSERT, proxy, call, steps>>

LinearAllocate ==
    /\ Running
    /\ \E allocatedSize \in RequestSizes, alignment \in RequestAlignments :
          LinearAllocateOn(allocatedSize, alignment)
    /\ UNCHANGED linearIdle

\* LinearAllocator::Deallocate(p): there is no per-allocation free path.
LinearDeallocate ==
    /\ Running
    /\ \E i \in 1..Len(granted) :
          last' = [NoOp EXCEPT !.op = "Deallocate", !.via = "linear",
                               !.p = granted[i].p]
    /\ fault' = "UnsupportedOperation"
    /\ UNCHANGED <<currentPos_, usedMemory_, numAllocations_, granted>>
    /\ UNCHANGED linearIdle

\* LinearAllocator::Clear()
Clear ==
    /\ Running
    /\ currentPos_' = start_
    /\ usedMemory_' = 0
    /\ numAllocations_' = 0
    /\ granted' = << >>
    /\ last' = [NoOp EXCEPT !.op = "Clear", !.via = "linear"]
    /\ UNCHANGED fault
    /\ UNCHANGED linearIdle

\* ~LinearAllocator, then ~Allocator.
LinearDestroy ==
    /\ Running
    /\ currentPos_' = NULL
    /\ last' = [NoOp EXCEPT !.op = "Destroy", !.via = "linear"]
    /\ IF AssertHolds(EmptiedCheck(numAllocations_, usedMemory_))
       THEN /\ start_' = NULL
            /\ size_' = 0
            /\ alive' = "destroyed"
            /\ fault' = "None"
       ELSE /\ fault' = "LeakAtTeardown"
            /\ UNCHANGED <<start_, size_, alive>>
    /\ UNCHANGED <<usedMemory_, numAllocations_, granted, freeBlocks_, heap,
                   live, prevPos_, NEKO_ASSERT, proxy, call, steps>>

NextLinear ==
    \/ LinearAllocate
    \/ LinearDeallocate
    \/ Clear
    \/ LinearDestroy

SpecLinear == InitLinear /\ [][NextLinear]_vars

\* ------------------------------------------------------- StackAllocator
\* The header defines the constructor, the destructor, AllocationHeader
\* and the fields; the bodies of Allocate and Deallocate follow section 4.3
\* of the specification.  AllocationHeader::prevPos and prevPos_ exist in
\* the build that defines NEKO_ASSERT only; the other build has nothing
\* but the adjustment to find the previous top with.

\* std::uint8_t adjustment
AdjustmentBits == 8

\* The value an adjustment has once stored in AllocationHeader::adjustment.
StoredAdjustment(adjustment) == adjustment % Pow2(AdjustmentBits)

\* The smallest alignment that has adjustments of more than AdjustmentBits bits.
WideAlignment == Pow2(AdjustmentBits)

\* #if defined(NEKO_ASSERT) around prevPos and prevPos_
TracksPrevPos_Never(defined) == FALSE

TracksPrevPos(defined) == defined

\* sizeof(StackAllocator::AllocationHeader): a pointer and a byte padded to
\* the pointer's alignment, or the byte alone.
StackHeaderSize == IF TracksPrevPos(NEKO_ASSERT) THEN 2 * PtrSize ELSE 1

StackArenaSizes == (0..MaxStackArena) \cup {WideAlignment + MaxStackArena}
StackRequestSizes == {3, PtrSize}
StackAlignments == {0, 3, 1, AlignOfT, WideAlignment}

\* StackAllocator(size, start)
InitStack ==
    /\ \E start \in ArenaStarts, size \in StackArenaSizes :
          /\ start_ = start
          /\ size_ = size
          /\ currentPos_ = InitialPos(start)
          /\ IF AssertHolds(size > 0)
             THEN fault = "None" /\ alive = "live"
             ELSE fault = "EmptyArena" /\ alive = "constructing"
    /\ NEKO_ASSERT \in BOOLEAN
    /\ prevPos_ = NULL
    /\ usedMemory_ = 0
    /\ numAllocations_ = 0
    /\ freeBlocks_ = NULL
    /\ heap = << >>
    /\ live = {}
    /\ granted = << >>
    /\ proxy = NoProxy
    /\ last = [NoOp EXCEPT !.op = "Construct", !.via = "stack"]
    /\ call = NoCall
    /\ steps = 0

\* The header written in front of a payload.
StackHeader(previousTop, adjustment) ==
    IF TracksPrevPos(NEKO_ASSERT)
    THEN [prevPos |-> previousTop, adjustment |-> StoredAdjustment(adjustment)]
    ELSE [adjustment |-> StoredAdjustment(adjustment)]

\* Memory after len bytes from address a on were handed out and the header
\* h was written at a: what was stored in those bytes before is gone.
Overwrite(hp, a, len, h) ==
    [x \in {y \in DOMAIN hp : y < a \/ y >= a + len} \cup {a} |->
        IF x = a THEN h ELSE hp[x]]

\* StackAllocator::Allocate(allocatedSize, alignment)
StackAllocateOn(allocatedSize, alignment) ==
    LET adj == CalculateAlignForwardAdjustmentWithHeader(
                   currentPos_, alignment, StackHeaderSize)
        alignedAddress == WAdd(currentPos_, adj.ret)
        header == WSub(alignedAddress, StackHeaderSize)
        rec(ret) == [op |-> "Allocate", via |-> "stack", size |-> allocatedSize,
                     alignment |-> alignment, p |-> NULL, ret |-> ret,
                     freed |-> NULL]
    IN  IF adj.err # "None"
        THEN /\ fault' = adj.err
             /\ last' = rec(NULL)
             /\ UNCHANGED <<currentPos_, prevPos_, usedMemory_, numAllocations_,
                            granted, heap>>
        ELSE IF adj.ret + allocatedSize > RemainingCapacity(size_, usedMemory_)
        THEN /\ fault' = "OutOfMemory"
             /\ last' = rec(NULL)
             /\ UNCHANGED <<currentPos_, prevPos_, usedMemory_, numAllocations_,
                            granted, heap>>
        ELSE /\ heap' = Overwrite(heap, header, StackHeaderSize + allocatedSize,
                                  StackHeader(currentPos_, adj.ret))
             /\ prevPos_' = IF TracksPrevPos(NEKO_ASSERT) THEN currentPos_
                            ELSE prevPos_
             /\ currentPos_' = WAdd(alignedAddress, allocatedSize)
             /\ usedMemory_' = WAdd(usedMemory_, adj.ret + allocatedSize)
             /\ numAllocations_' = WAdd(numAllocations_, 1)
             /\ granted' = Append(granted, [p |-> alignedAddress,
                                            size |-> allocatedSize,
                                            adjustment |-> adj.ret,
                                            previousTop |-> currentPos_])
             /\ last' = rec(alignedAddress)
             /\ fault' = "None"

stackIdle == <<start_, size_, freeBlocks_, alive, live, NEKO_ASSERT, proxy, call>>

StackAllocate ==
    /\ Running
    /\ \E allocatedSize \in StackRequestSizes, alignment \in StackAlignments :
          StackAllocateOn(allocatedSize, alignment)
    /\ UNCHANGED stackIdle

\* The previous-top check of Deallocate.
OrderCheck(headerPrevPos, prevPos) == headerPrevPos = prevPos

\* The allocations outstanding once p is released.
Released(allocations, p) == SelectSeq(allocations, LAMBDA r : r.p # p)

\* StackAllocator::Deallocate(p)
StackDeallocateOn(p) ==
    LET header == WSub(p, StackHeaderSize)
        rec == [op |-> "Deallocate", via |-> "stack", size |-> 0,
                alignment |-> 0, p |-> p, ret |-> NULL, freed |-> NULL]
    IN  /\ last' = rec
        /\ IF header \notin DOMAIN heap
           THEN \* the header was overwritten: what it reads is undefined
                /\ fault' = "WildPointer"
                /\ UNCHANGED <<currentPos_, usedMemory_, numAllocations_, granted>>
           ELSE IF /\ TracksPrevPos(NEKO_ASSERT)
                   /\ ~AssertHolds(OrderCheck(heap[header].prevPos, prevPos_))
           THEN /\ fault' = "OrderingViolation"
                /\ UNCHANGED <<currentPos_, usedMemory_, numAllocations_, granted>>
           ELSE LET previousTop == IF TracksPrevPos(NEKO_ASSERT)
                                   THEN heap[header].prevPos
                                   ELSE WSub(p, heap[header].adjustment)
                IN  /\ currentPos_' = previousTop
                    /\ usedMemory_' = WSub(usedMemory_, WSub(currentPos_, previousTop))
                    /\ numAllocations_' = WSub(numAllocations_, 1)
                    /\ granted' = Released(granted, p)
                    /\ fault' = "None"
        /\ UNCHANGED <<prevPos_, heap>>

StackDeallocate ==
    /\ Running
    /\ \E i \in 1..Len(granted) : StackDeallocateOn(granted[i].p)
    /\ UNCHANGED stackIdle

\* ~StackAllocator, then ~Allocator.
StackDestroy ==
    /\ Running
    /\ currentPos_' = NULL
    /\ prevPos_' = NULL
    /\ last' = [NoOp EXCEPT !.op = "Destroy", !.via = "stack"]
    /\ IF AssertHolds(EmptiedCheck(numAllocations_, usedMemory_))
       THEN /\ start_' = NULL
            /\ size_' = 0
            /\ alive' = "destroyed"
            /\ fault' = "None"
       ELSE /\ fault' = "LeakAtTeardown"
            /\ UNCHANGED <<start_, size_, alive>>
    /\ UNCHANGED <<usedMemory_, numAllocations_, granted, freeBlocks_, heap,
                   live, NEKO_ASSERT, proxy, call>>

\* A call of a run of at most MaxStackCalls calls.
StackStep(A) == steps < MaxStackCalls /\ steps' = steps + 1 /\ A

NextStack ==
    \/ StackStep(StackAllocate)
    \/ StackStep(StackDeallocate)
    \/ StackStep(StackDestroy)

SpecStack == InitStack /\ [][NextStack]_vars

\* ---------------------------------------------------- FreeListAllocator
\* The header defines the constructor, the destructor, AllocationHeader
\* and FreeBlock; the bodies of Allocate and Deallocate follow section 4.4
\* of the specification.  The scan computes the adjustment from the
\* block's own address, so the payload lies at block + adjustment, the one
\* place in the block that adjustment aligns; on a split the leftover
\* behind the allocation takes the block's place in the list.  Where
\* Deallocate puts the block in the free list is left open there: every
\* position is modelled.  Deallocate does not merge blocks (sections 4.4
\* and 9: the reference shows no merging).

\* sizeof(FreeListAllocator::AllocationHeader): a size_t and a byte, padded.
FreeListHeaderSize == 2 * PtrSize

\* sizeof(FreeListAllocator::FreeBlock): a size_t and a pointer.
FreeBlockSize == 2 * PtrSize

FreeListArenaSizes == (0..MaxFreeListArena) \cup {WideAlignment + MaxFreeListArena}

\* FreeListAllocator(size, start)
InitFreeList ==
    /\ \E start \in ArenaStarts, size \in FreeListArenaSizes :
          /\ start_ = start
          /\ size_ = size
          /\ freeBlocks_ = start
          /\ IF AssertHolds(size > FreeBlockSize)
             THEN /\ heap = [a \in {start} |-> [size |-> size, next |-> NULL]]
                  /\ fault = "None"
                  /\ alive = "live"
             ELSE /\ heap = << >>
                  /\ fault = "EmptyArena"
                  /\ alive = "constructing"
    /\ usedMemory_ = 0
    /\ numAllocations_ = 0
    /\ currentPos_ = NULL
    /\ prevPos_ = NULL
    /\ NEKO_ASSERT = TRUE
    /\ live = {}
    /\ granted = << >>
    /\ proxy = NoProxy
    /\ last = [NoOp EXCEPT !.op = "Construct", !.via = "freelist"]
    /\ call = NoCall
    /\ steps = 0

\* The address holds a FreeBlock.
IsFreeBlock(hp, a) == a \in DOMAIN hp /\ "next" \in DOMAIN hp[a]

\* The address holds an AllocationHeader.
IsHeader(hp, a) == a \in DOMAIN hp /\ "adjustment" \in DOMAIN hp[a]

\* The free blocks, from h along next (cut where the list repeats or
\* leaves the blocks the allocator wrote).
RECURSIVE BlocksFrom(_, _, _)
BlocksFrom(h, hp, seen) ==
    IF h = NULL \/ h \in seen \/ ~IsFreeBlock(hp, h) THEN << >>
    ELSE <<h>> \o BlocksFrom(hp[h].next, hp, seen \cup {h})

\* The scan of Allocate: the first block whose capacity behind the
\* adjustment holds the request.
RECURSIVE FirstFit(_, _, _, _, _, _)
FirstFit(prev, block, hp, allocatedSize, alignment, seen) ==
    LET none == [kind |-> "none", err |-> "None", prev |-> prev,
                 block |-> block, adjustment |-> 0]
    IN  IF block = NULL THEN none
        ELSE IF block \in seen \/ ~IsFreeBlock(hp, block)
        THEN [none EXCEPT !.kind = "wild"]
        ELSE LET adj == CalculateAlignForwardAdjustmentWithHeader(
                            block, alignment, FreeListHeaderSize)
             IN  IF adj.err # "None"
                 THEN [none EXCEPT !.kind = "err", !.err = adj.err]
                 ELSE IF hp[block].size >= adj.ret + allocatedSize
                 THEN [none EXCEPT !.kind = "fit", !.adjustment = adj.ret]
                 ELSE FirstFit(block, hp[block].next, hp, allocatedSize,
                               alignment, seen \cup {block})

\* The block is split when more than one header's worth is left over.
Splits(leftover) == leftover > FreeListHeaderSize

\* Memory once the extent [a, a + len) belongs to an allocation whose
\* header h lies at address at.
Carve(hp, a, len, at, h) ==
    [x \in {y \in DOMAIN hp : y < a \/ y >= a + len} \cup {at} |->
        IF x = at THEN h ELSE hp[x]]

\* FreeListAllocator::Allocate(allocatedSize, alignment)
FreeListAllocateOn(allocatedSize, alignment) ==
    LET f == FirstFit(NULL, freeBlocks_, heap, allocatedSize, alignment, {})
        rec(ret) == [op |-> "Allocate", via |-> "freelist", size |-> allocatedSize,
                     alignment |-> alignment, p |-> NULL, ret |-> ret,
                     freed |-> IF last.op = "Deallocate" THEN last.freed ELSE NULL]
        idle == <<freeBlocks_, heap, usedMemory_, numAllocations_, granted>>
    IN  IF f.kind = "err"
        THEN fault' = f.err /\ last' = rec(NULL) /\ UNCHANGED idle
        ELSE IF f.kind = "none"
        THEN fault' = "OutOfMemory" /\ last' = rec(NULL) /\ UNCHANGED idle
        ELSE IF f.kind = "wild"
        THEN \* the list runs into memory that holds no FreeBlock
             fault' = "WildPointer" /\ last' = rec(NULL) /\ UNCHANGED idle
        ELSE LET block == f.block
                 totalSize == f.adjustment + allocatedSize
                 leftover == heap[block].size - totalSize
                 split == Splits(leftover)
                 extent == block
                 rest == WAdd(block, totalSize)
                 blockSize == IF split THEN totalSize ELSE heap[block].size
                 alignedAddress == WAdd(extent, f.adjustment)
                 header == [size |-> blockSize,
                            adjustment |-> StoredAdjustment(f.adjustment)]
                 after == IF split THEN rest ELSE heap[block].next
                 relinked == IF f.prev = NULL THEN heap
                             ELSE [heap EXCEPT ![f.prev].next = after]
                 carved == Carve(relinked, extent, blockSize,
                                 WSub(alignedAddress, FreeListHeaderSize), header)
             IN  /\ freeBlocks_' = IF f.prev = NULL THEN after ELSE freeBlocks_
                 /\ heap' = IF split
                            THEN [x \in DOMAIN carved \cup {rest} |->
                                     IF x = rest
                                     THEN [size |-> leftover, next |-> heap[block].next]
                                     ELSE carved[x]]
                            ELSE carved
                 /\ usedMemory_' = WAdd(usedMemory_, blockSize)
                 /\ numAllocations_' = WAdd(numAllocations_, 1)
                 /\ granted' = Append(granted,
                        [p |-> alignedAddress, size |-> allocatedSize,
                         alignment |-> alignment, adjustment |-> f.adjustment,
                         extent |-> extent, blockSize |-> blockSize,
                         usedBefore |-> usedMemory_])
                 /\ last' = rec(alignedAddress)
                 /\ fault' = "None"

freeListIdle == <<start_, size_, alive, live, currentPos_, prevPos_, NEKO_ASSERT,
                  proxy, call>>

FreeListAllocate ==
    /\ Running
    /\ \E allocatedSize \in StackRequestSizes, alignment \in StackAlignments :
          FreeListAllocateOn(allocatedSize, alignment)
    /\ UNCHANGED freeListIdle

\* The free list with block put behind its first k blocks.
InsertedAt_Lost(hp, head, block, blockSize, k) == hp

InsertedAt(hp, head, block, blockSize, k) ==
    LET list == BlocksFrom(head, hp, {})
        next == IF k < Len(list) THEN list[k + 1] ELSE NULL
    IN  [x \in DOMAIN hp \cup {block} |->
            IF x = block THEN [size |-> blockSize, next |-> next]
            ELSE IF k >= 1 /\ x = list[k] THEN [hp[x] EXCEPT !.next = block]
            ELSE hp[x]]

\* FreeListAllocator::Deallocate(p); request is the allocation p came from.
FreeListDeallocateOn(p, request) ==
    LET header == WSub(p, FreeListHeaderSize)
        rec == [op |-> "Deallocate", via |-> "freelist", size |-> request.size,
                alignment |-> request.alignment, p |-> p, ret |-> NULL,
                freed |-> IF last.op = "Allocate" /\ last.ret = p THEN p ELSE NULL]
    IN  /\ last' = rec
        /\ IF ~IsHeader(heap, header)
           THEN \* the header was overwritten: what it reads is undefined
                /\ fault' = "WildPointer"
                /\ UNCHANGED <<freeBlocks_, heap, usedMemory_, numAllocations_,
                               granted>>
           ELSE LET block == WSub(p, heap[header].adjustment)
                    blockSize == heap[header].size
                    gone == [x \in DOMAIN heap \ {header} |-> heap[x]]
                IN  /\ \E k \in 0..Len(BlocksFrom(freeBlocks_, gone, {})) :
                          /\ heap' = InsertedAt(gone, freeBlocks_, block, blockSize, k)
                          /\ freeBlocks_' = IF k = 0 THEN block ELSE freeBlocks_
                    /\ usedMemory_' = WSub(usedMemory_, blockSize)
                    /\ numAllocations_' = WSub(numAllocations_, 1)
                    /\ granted' = Released(granted, p)
                    /\ fault' = "None"

FreeListDeallocate ==
    /\ Running
    /\ \E i \in 1..Len(granted) : FreeListDeallocateOn(granted[i].p, granted[i])
    /\ UNCHANGED freeListIdle

\* ~FreeListAllocator, then ~Allocator.
FreeListDestroy ==
    /\ Running
    /\ freeBlocks_' = NULL
    /\ last' = [NoOp EXCEPT !.op = "Destroy", !.via = "freelist"]
    /\ IF AssertHolds(EmptiedCheck(numAllocations_, usedMemory_))
       THEN /\ start_' = NULL
            /\ size_' = 0
            /\ alive' = "destroyed"
            /\ fault' = "None"
       ELSE /\ fault' = "LeakAtTeardown"
            /\ UNCHANGED <<start_, size_, alive>>
    /\ UNCHANGED <<usedMemory_, numAllocations_, granted, heap, live,
                   currentPos_, prevPos_, NEKO_ASSERT, proxy, call>>

\* A call of a run of at most MaxFreeListCalls calls.
FreeListStep(A) == steps < MaxFreeListCalls /\ steps' = steps + 1 /\ A

NextFreeList ==
    \/ FreeListStep(FreeListAllocate)
    \/ FreeListStep(FreeListDeallocate)
    \/ FreeListStep(FreeListDestroy)

SpecFreeList == InitFreeList /\ [][NextFreeList]_vars

\* ------------------------------------------------------------- claims
PowersOfTwo == {Pow2(k) : k \in 0..(WordBits - 1)}

\* Some multiple of alignment that is >= lower exists in the address space.
Representable(lower, alignment) ==
    \E m \in lower..(Word - 1) : m % alignment = 0

\* C1: for every address and power-of-two alignment (for which an aligned
\* address >= the input exists in the address space), AlignForward returns
\* a multiple of alignment that is the smallest one >= address, and
\* CalculateAlignForwardAdjustment returns the smallest non-negative offset
\* that aligns the address, 0 when it is aligned already.
C1_AlignmentLaw ==
    /\ (/\ call.fn = "AlignForward"
        /\ call.alignment \in PowersOfTwo
        /\ Representable(call.address, call.alignment))
       => /\ call.err = "None"
          /\ call.ret % call.alignment = 0
          /\ call.ret >= call.address
          /\ \A m \in call.address..call.ret :
                m % call.alignment = 0 => m = call.ret
    /\ (/\ call.fn = "CalculateAlignForwardAdjustment"
        /\ call.alignment \in PowersOfTwo)
       => /\ call.err = "None"
          /\ ((call.address + call.ret) % Word) % call.alignment = 0
          /\ \A o \in 0..call.ret :
                (call.address + o) % call.alignment = 0 => o = call.ret
          /\ (call.address % call.alignment = 0 => call.ret = 0)

C1_Witness ==
    /\ call.fn = "AlignForward"
    /\ call.alignment = 8
    /\ call.address % 8 = 3
    /\ call.ret = call.address + 5

\* C2: AlignForwardWithHeader leaves at least headerSize bytes between the
\* address and the payload address it returns (for every power-of-two
\* alignment and every address for which an aligned address
\* >= address + headerSize exists in the address space).
C2_HeaderReservation ==
    /\ (/\ call.fn = "AlignForwardWithHeader"
        /\ call.alignment \in PowersOfTwo
        /\ Representable(call.address + call.headerSize, call.alignment))
       => /\ call.err = "None"
          /\ call.ret - call.address >= call.headerSize
    /\ (/\ call.fn = "CalculateAlignForwardAdjustmentWithHeader"
        /\ call.alignment \in PowersOfTwo)
       => /\ call.err = "None"
          /\ call.ret >= call.headerSize

C2_Witness ==
    /\ call.fn = "AlignForwardWithHeader"
    /\ call.alignment = 4
    /\ call.headerSize = 9
    /\ call.address % 4 = 1
    /\ call.ret = call.address + 11

\* C8: CalculateAlignForwardAdjustment fails with InvalidAlignment for
\* every alignment that is not a power of two, alignment 0 included, and
\* returns an offset only for an alignment in {1, 2, 4, 8, ...}.
C8_InvalidAlignmentRejected ==
    call.fn = "CalculateAlignForwardAdjustment"
        => (call.err = "InvalidAlignment" <=> call.alignment \notin PowersOfTwo)

\* The partition the constructor is specified to make of the arena
\* (start_, size_): floor((size - initialAlignmentAdjustment) / slotSize)
\* slots from the first aligned address on.
InitialAdjustment == (AlignOfT - (start_ % AlignOfT)) % AlignOfT

NumSlots ==
    IF size_ < InitialAdjustment THEN 0
    ELSE (size_ - InitialAdjustment) \div SizeOfT

SlotSeq == [i \in 1..NumSlots |-> start_ + InitialAdjustment + (i - 1) * SizeOfT]

Slots == {SlotSeq[i] : i \in 1..NumSlots}

\* The free list, from freeBlocks_ along next (cut where it repeats or
\* leaves the memory the allocator wrote).
RECURSIVE ListFrom(_, _, _)
ListFrom(h, hp, seen) ==
    IF h = NULL \/ h \in seen \/ h \notin DOMAIN hp THEN << >>
    ELSE <<h>> \o ListFrom(hp[h], hp, seen \cup {h})

FreeList == ListFrom(freeBlocks_, heap, {})

\* The step is a call of Allocate: it returned an address or failed.
AllocateStep ==
    /\ last'.op = "Allocate"
    /\ fault = "None"
    /\ (fault' # "None" \/ usedMemory_' # usedMemory_)

\* C3: on a pool of N >= 1 slots used by Allocate and by Deallocate of live
\* addresses, Allocate(sizeof(T), alignof(T)) succeeds whenever fewer than
\* N addresses are live and returns a slot that is not live, and fails with
\* OutOfMemory when N are live.  (From the fresh pool: N calls succeed with
\* pairwise distinct slots, the (N+1)th fails; after k Deallocate calls, in
\* any order, k more succeed.)
C3_PoolExhaustionRecovery ==
    [][(AllocateStep /\ last'.size = SizeOfT /\ last'.alignment = AlignOfT)
        => IF Cardinality(live) < NumSlots
           THEN /\ fault' = "None"
                /\ last'.ret \in Slots \ live
                /\ live' = live \cup {last'.ret}
           ELSE /\ fault' = "OutOfMemory"
                /\ live' = live]_vars

C3_Witness ==
    /\ NumSlots = 3
    /\ last.op = "Allocate"
    /\ fault = "OutOfMemory"
    /\ live = Slots
    /\ numAllocations_ = 3

\* C4: right after construction over any arena, the free list is exactly
\* the floor((size - adjustment) / slotSize) slots in ascending address
\* order, every slot lies inside the arena, and the constructor wrote
\* nothing outside the arena (and so ended normally).
C4_ConstructionPartitionsArena ==
    last.op = "Construct"
        => /\ fault = "None"
           /\ FreeList = SlotSeq
           /\ \A a \in Slots : InArena(a, SizeOfT, start_, size_)
           /\ \A a \in DOMAIN heap : InArena(a, PtrSize, start_, size_)

\* C5: the Allocate that immediately follows Deallocate(p) of a live slot
\* p returns p.
C5_LastFreedFirstReused ==
    [][(/\ last.op = "Deallocate"
        /\ AllocateStep
        /\ last'.size = SizeOfT
        /\ last'.alignment = AlignOfT)
        => /\ fault' = "None"
           /\ last'.ret = last.p]_vars

\* A full pool of three slots whose middle slot was freed and came back.
C5_Witness ==
    /\ NumSlots = 3
    /\ last.op = "Allocate"
    /\ fault = "None"
    /\ last.freed = SlotSeq[2]
    /\ last.ret = SlotSeq[2]
    /\ live = Slots

\* C6: 0 <= usedMemory <= size in every state of the pool, whatever calls
\* of Allocate and Deallocate were made.
C6_UsedMemoryWithinSize ==
    alive = "live" => (0 <= usedMemory_ /\ usedMemory_ <= size_)

\* C7: Allocate with a size other than sizeof(T) or an alignment other
\* than alignof(T) fails with SizeMismatch, returns no address and leaves
\* the free list, usedMemory and numAllocations as they were.
C7_SizeMismatchRejected ==
    [][(AllocateStep /\ ~(last'.size = SizeOfT /\ last'.alignment = AlignOfT))
        => /\ fault' = "SizeMismatch"
           /\ last'.ret = NULL
           /\ UNCHANGED <<freeBlocks_, heap, usedMemory_, numAllocations_, live>>]_vars

C7_Witness ==
    /\ fault = "SizeMismatch"
    /\ last.op = "Allocate"
    /\ last.size = SizeOfT
    /\ last.alignment # AlignOfT
    /\ last.ret = NULL
    /\ numAllocations_ = 1
    /\ freeBlocks_ # NULL

\* C9: while both are alive, the proxy's GetUsedMemory, GetSize and
\* GetStart equal those of the allocator it wraps.
C9_ProxyTransparency ==
    (proxy.alive = "live" /\ alive = "live")
        => /\ GetUsedMemory(proxy) = GetUsedMemory(Pool)
           /\ GetSize(proxy) = GetSize(Pool)
           /\ GetStart(proxy) = GetStart(Pool)

\* C10: the destruction of the pool is accepted only with
\* numAllocations = 0 and usedMemory = 0, and it is reported as
\* LeakAtTeardown in every state with an allocation outstanding.
C10_LeakDetectedAtTeardown ==
    (last.op = "Destroy" /\ last.via = "pool")
        => /\ fault \in {"None", "LeakAtTeardown"}
           /\ fault = "None" => (numAllocations_ = 0 /\ usedMemory_ = 0)
           /\ live # {} => fault = "LeakAtTeardown"

\* C16: for every address, power-of-two alignment and headerSize, the
\* offset CalculateAlignForwardAdjustmentWithHeader returns makes
\* address + offset a multiple of alignment, is the smallest offset
\* >= headerSize that does, and is the plain adjustment whenever that one is
\* >= headerSize already.
C16_SmallestHeaderAdjustment ==
    (/\ call.fn = "CalculateAlignForwardAdjustmentWithHeader"
     /\ call.alignment \in PowersOfTwo)
        => /\ call.err = "None"
           /\ (call.address + call.ret) % call.alignment = 0
           /\ call.ret >= call.headerSize
           /\ \A o \in call.headerSize..call.ret :
                 (call.address + o) % call.alignment = 0 => o = call.ret
           /\ LET plain == (call.alignment - (call.address % call.alignment))
                           % call.alignment
              IN  plain >= call.headerSize => call.ret = plain

\* A header of 9 bytes behind an address 3 past a multiple of 4: the plain
\* adjustment 1 is raised by two alignments to 9.
C16_Witness ==
    /\ call.fn = "CalculateAlignForwardAdjustmentWithHeader"
    /\ call.alignment = 4
    /\ call.address % 4 = 3
    /\ call.headerSize = 9
    /\ call.ret = 9

\* The slots on the free list.
FreeSlots == {FreeList[i] : i \in 1..Len(FreeList)}

\* The free list ends at nullptr without visiting a block twice: ListFrom
\* stops early at a repeated or foreign block, and then the block it
\* stopped before is not NULL.
RECURSIVE ListEnd(_, _, _)
ListEnd(h, hp, seen) ==
    IF h = NULL \/ h \in seen \/ h \notin DOMAIN hp THEN h
    ELSE ListEnd(hp[h], hp, seen \cup {h})

Acyclic == ListEnd(freeBlocks_, heap, {}) = NULL

\* C17: on a pool whose clients deallocate live addresses only, in every
\* state from the end of the constructor to the start of the destructor,
\* usedMemory = numAllocations * sizeof(T), the free list is acyclic,
\* its length plus numAllocations is the slot count N, and the free slots
\* and the live addresses are disjoint and together the N slots.
C17_PoolInvariants ==
    (alive = "live" /\ ~(last.op = "Destroy" /\ last.via = "pool"))
        => /\ usedMemory_ = numAllocations_ * SizeOfT
           /\ Acyclic
           /\ Len(FreeList) + numAllocations_ = NumSlots
           /\ FreeSlots \cap live = {}
           /\ FreeSlots \cup live = Slots

\* Three slots: two were handed out, the first came back and heads the
\* free list in front of the slot never handed out.
C17_Witness ==
    /\ alive = "live"
    /\ NumSlots = 3
    /\ last.op = "Deallocate"
    /\ live = {SlotSeq[2]}
    /\ FreeList = <<SlotSeq[1], SlotSeq[3]>>
    /\ usedMemory_ = SizeOfT

\* The byte ranges [p, p + size) and [q, q + len) share no byte.
Apart(p, size, q, len) == p + size <= q \/ q + len <= p

\* The step is a call of Allocate on the linear allocator.
LinearAllocateStep ==
    /\ fault = "None"
    /\ last'.op = "Allocate"
    /\ last'.via = "linear"
    /\ (fault' # "None" \/ currentPos_' # currentPos_)

\* C14: on a linear allocator, an Allocate that succeeds returns a range
\* inside the arena that shares no byte with a range returned since the
\* last Clear; an Allocate of a power-of-two alignment whose adjustment
\* plus size exceeds what is left of the arena fails with OutOfMemory and
\* leaves currentPos, usedMemory and numAllocations as they were.
C14_LinearRangesDisjoint ==
    [][LinearAllocateStep
        => /\ fault' = "None"
              => /\ InArena(last'.ret, last'.size, start_, size_)
                 /\ \A i \in 1..Len(granted) :
                       Apart(last'.ret, last'.size, granted[i].p, granted[i].size)
           /\ (/\ last'.alignment \in PowersOfTwo
               /\ ((last'.alignment - (currentPos_ % last'.alignment))
                        % last'.alignment) + last'.size
                    > start_ + size_ - currentPos_)
              => /\ fault' = "OutOfMemory"
                 /\ UNCHANGED <<currentPos_, usedMemory_, numAllocations_>>]_vars

\* After a Clear, a third range was carved behind two others and an
\* alignment gap.
C14_Witness ==
    /\ last.op = "Allocate"
    /\ last.via = "linear"
    /\ fault = "None"
    /\ Len(granted) = 3
    /\ granted[3].p = last.ret
    /\ granted[3].p > granted[2].p + granted[2].size

\* The step is a call of Deallocate on the stack allocator.
StackDeallocateStep ==
    /\ fault = "None"
    /\ steps' = steps + 1
    /\ last'.op = "Deallocate"
    /\ last'.via = "stack"

\* The most recently allocated of the outstanding allocations.
Top == granted[Len(granted)]

\* The outstanding allocations lie one behind the other from the start of
\* the arena: nothing was released out of order.
Stacked ==
    \A i \in 1..Len(granted) :
        granted[i].previousTop =
            IF i = 1 THEN start_ ELSE granted[i - 1].p + granted[i - 1].size

\* C11: on a stack allocator whose allocations were released in reverse
\* order so far, Deallocate of the most recent outstanding allocation is
\* accepted (no OrderingViolation), and when it was the last one
\* outstanding currentPos and usedMemory are what they were before the
\* first Allocate.
C11_StackRoundTrip ==
    [][(/\ StackDeallocateStep
        /\ Stacked
        /\ last'.p = Top.p)
        => /\ fault' = "None"
           /\ Len(granted) = 1 => (currentPos_' = start_ /\ usedMemory_' = 0)]_vars

\* The claim of C12 in either build: with two or more allocations
\* outstanding, Deallocate of one that is not the most recent is reported
\* as OrderingViolation and changes nothing.
C12_OutOfOrderDetected ==
    [][(/\ StackDeallocateStep
        /\ Len(granted) >= 2
        /\ last'.p # Top.p)
        => /\ fault' = "OrderingViolation"
           /\ UNCHANGED <<currentPos_, usedMemory_, numAllocations_>>]_vars

\* C12: in the build that defines NEKO_ASSERT, with two or more
\* allocations outstanding, Deallocate of one that is not the most recent
\* is reported as OrderingViolation and leaves currentPos, usedMemory and
\* numAllocations as they were.
C12_OutOfOrderDetectedWhenChecked ==
    [][(/\ NEKO_ASSERT
        /\ StackDeallocateStep
        /\ Len(granted) >= 2
        /\ last'.p # Top.p)
        => /\ fault' = "OrderingViolation"
           /\ UNCHANGED <<currentPos_, usedMemory_, numAllocations_>>]_vars

\* Two allocations outstanding, the older one handed to Deallocate.
C12_Witness ==
    /\ NEKO_ASSERT
    /\ last.op = "Deallocate"
    /\ last.via = "stack"
    /\ fault = "OrderingViolation"
    /\ Len(granted) = 2
    /\ last.p = granted[1].p
    /\ numAllocations_ = 2

\* C18: the header in front of every outstanding allocation of the stack
\* allocator holds, in its adjustment byte, the adjustment Allocate
\* applied, whatever power of two the alignment was.
C18_AdjustmentFitsByte ==
    last.via = "stack"
        => \A i \in 1..Len(granted) :
              LET header == granted[i].p - StackHeaderSize
              IN  header \in DOMAIN heap
                     => heap[header].adjustment = granted[i].adjustment

\* The free blocks of the free list allocator, in list order.
FreeSeq == BlocksFrom(freeBlocks_, heap, {})

\* The step is a call of Allocate, of Deallocate, on the free list allocator.
FreeListAllocateStep ==
    /\ fault = "None"
    /\ steps' = steps + 1
    /\ last'.op = "Allocate"
    /\ last'.via = "freelist"

FreeListDeallocateStep ==
    /\ fault = "None"
    /\ steps' = steps + 1
    /\ last'.op = "Deallocate"
    /\ last'.via = "freelist"

C15_FreeBlocksCoalesced ==
    (last.via = "freelist" /\ last.op = "Deallocate" /\ fault = "None")
        => /\ \A i, j \in 1..Len(FreeSeq) :
                 FreeSeq[i] + heap[FreeSeq[i]].size # FreeSeq[j]
           /\ granted = << >>
                 => /\ FreeSeq = <<start_>>
                    /\ heap[start_].size = size_

\* The sum of the sizes of the blocks at the addresses of list.
RECURSIVE SumSizes(_, _)
SumSizes(list, hp) ==
    IF list = << >> THEN 0
    ELSE hp[Head(list)].size + SumSizes(Tail(list), hp)

\* The extents of the free blocks and of the outstanding allocations.
FreeExtents == {<<"free", FreeSeq[i], heap[FreeSeq[i]].size>> : i \in 1..Len(FreeSeq)}
LiveExtents == {<<"live", granted[i].extent, granted[i].blockSize>> :
                   i \in 1..Len(granted)}

\* C19: in every state of a free list allocator the free blocks and the
\* blocks of the outstanding allocations lie inside the arena, no two of
\* them share a byte, and the sizes of the free blocks and usedMemory add
\* up to the size of the arena.
C19_FreeListPartition ==
    (last.via = "freelist" /\ alive = "live" /\ last.op # "Destroy")
        => /\ \A e \in FreeExtents \cup LiveExtents : InArena(e[2], e[3], start_, size_)
           /\ \A e, g \in FreeExtents \cup LiveExtents :
                 e # g => Apart(e[2], e[3], g[2], g[3])
           /\ Cardinality(FreeExtents) = Len(FreeSeq)
           /\ Cardinality(LiveExtents) = Len(granted)
           /\ SumSizes(FreeSeq, heap) + usedMemory_ = size_

====
